---------------------------- MODULE Spec2Model ----------------------------
(***************************************************************************)
(* espsegs (src/src/main.rs): prints the sections of a firmware image, the *)
(* memory region of the chip each one lies in, and a proportional bar of   *)
(* the section inside that region.                                         *)
(*                                                                         *)
(* Strings whose characters the program inspects (chip names, region       *)
(* names, section names) are sequences of characters.  A u64 or usize is   *)
(* four 16-bit limbs, most significant first, so that sums and differences *)
(* wrap at 2^64 as the program's do.  An f64 is modelled bit-exactly: a    *)
(* sign, a 53-bit significand (most significant bit first) and the binary  *)
(* exponent of its last bit.                                               *)
(***************************************************************************)
EXTENDS Integers, Sequences, FiniteSets, TLC

(***************************************************************************)
(* u64 and usize                                                           *)
(***************************************************************************)
Limb == 65536

u64_MAX == <<65535, 65535, 65535, 65535>>

\* The u64 of a number below 2^31.
u64(n) == <<0, 0, n \div Limb, n % Limb>>

\* A u64 below 2^31 and the number it is.
IsNarrow(x) == x[1] = 0 /\ x[2] = 0 /\ x[3] < 32768
Narrow(x) == x[3] * Limb + x[4]

\* x < y and x <= y.
Lt(x, y) == \E i \in 1..4 : x[i] < y[i] /\ \A j \in 1..(i - 1) : x[j] = y[j]
Le(x, y) == x = y \/ Lt(x, y)

\* u64::overflowing_add: the sum modulo 2^64 and whether it wrapped.
overflowing_add(x, y) ==
    LET s4 == x[4] + y[4]
        s3 == x[3] + y[3] + (s4 \div Limb)
        s2 == x[2] + y[2] + (s3 \div Limb)
        s1 == x[1] + y[1] + (s2 \div Limb)
    IN  [value    |-> <<s1 % Limb, s2 % Limb, s3 % Limb, s4 % Limb>>,
         overflow |-> s1 >= Limb]

\* u64::overflowing_sub: the difference modulo 2^64 and whether it wrapped.
overflowing_sub(x, y) ==
    LET d4 == x[4] - y[4]
        d3 == x[3] - y[3] - (IF d4 < 0 THEN 1 ELSE 0)
        d2 == x[2] - y[2] - (IF d3 < 0 THEN 1 ELSE 0)
        d1 == x[1] - y[1] - (IF d2 < 0 THEN 1 ELSE 0)
    IN  [value    |-> <<d1 % Limb, d2 % Limb, d3 % Limb, d4 % Limb>>,
         overflow |-> d1 < 0]

\* The binary digits of n, most significant first (<<>> for 0).
RECURSIVE NatBits(_)
NatBits(n) == IF n = 0 THEN <<>> ELSE Append(NatBits(n \div 2), n % 2)

\* The number a sequence of binary digits (most significant first) denotes.
RECURSIVE BitsNat(_)
BitsNat(bits) ==
    IF bits = <<>> THEN 0
    ELSE 2 * BitsNat(SubSeq(bits, 1, Len(bits) - 1)) + bits[Len(bits)]

Zeros(n) == [i \in 1..n |-> 0]

\* The digits without the leading zeros.
StripZeros(bits) ==
    LET ones == {i \in 1..Len(bits) : bits[i] = 1}
    IN  IF ones = {} THEN <<>>
        ELSE SubSeq(bits, CHOOSE i \in ones : \A j \in ones : i <= j, Len(bits))

\* The 16 binary digits of a limb.
LimbBits(l) == Zeros(16 - Len(NatBits(l))) \o NatBits(l)

\* The 64 binary digits of a u64, and the u64 of at most 64 binary digits.
U64Bits(x) == LimbBits(x[1]) \o LimbBits(x[2]) \o LimbBits(x[3]) \o LimbBits(x[4])

BitsU64(bits) ==
    LET b == Zeros(64 - Len(bits)) \o bits
    IN  <<BitsNat(SubSeq(b, 1, 16)), BitsNat(SubSeq(b, 17, 32)),
          BitsNat(SubSeq(b, 33, 48)), BitsNat(SubSeq(b, 49, 64))>>

(***************************************************************************)
(* f64 arithmetic, as far as print_memory uses it: the cast of a u64, the  *)
(* quotient and the difference of two such casts, the product of two f64,  *)
(* the cast to usize.  Every operation rounds to nearest, ties to even     *)
(* (IEEE 754 binary64).  No value of print_memory is subnormal or beyond   *)
(* the exponent range: all lie between 2^-64 and 2^128.                    *)
(***************************************************************************)
MantissaBits == 53

F64Zero == [kind |-> "zero", neg |-> FALSE, m |-> <<>>, e |-> 0]
F64Inf  == [kind |-> "inf",  neg |-> FALSE, m |-> <<>>, e |-> 0]
F64NaN  == [kind |-> "nan",  neg |-> FALSE, m |-> <<>>, e |-> 0]

\* bits + 1, one digit longer when every digit was 1.
IncBits(bits) ==
    LET zeros == {i \in 1..Len(bits) : bits[i] = 0}
        k     == CHOOSE i \in zeros : \A j \in zeros : j <= i
    IN  IF zeros = {} THEN <<1>> \o Zeros(Len(bits))
        ELSE [i \in 1..Len(bits) |-> IF i < k THEN bits[i] ELSE IF i = k THEN 1 ELSE 0]

\* The f64 nearest to the exact value bits * 2^e (bits starts with 1; a
\* nonzero rest below the last digit is announced by stickyBelow): 53
\* significant digits, ties to even.
F64Round(bits, e, stickyBelow, neg) ==
    LET L      == Len(bits)
        mant   == SubSeq(bits, 1, MantissaBits)
        round  == IF L > MantissaBits THEN bits[MantissaBits + 1] ELSE 0
        sticky == stickyBelow \/ \E i \in (MantissaBits + 2)..L : bits[i] = 1
        up     == round = 1 /\ (sticky \/ mant[MantissaBits] = 1)
        inc    == IncBits(mant)
        e1     == e + (L - MantissaBits)
    IN  IF L <= MantissaBits
        THEN [kind |-> "fin", neg |-> neg, m |-> bits \o Zeros(MantissaBits - L), e |-> e1]
        ELSE IF ~up THEN [kind |-> "fin", neg |-> neg, m |-> mant, e |-> e1]
        ELSE IF Len(inc) = MantissaBits THEN [kind |-> "fin", neg |-> neg, m |-> inc, e |-> e1]
        ELSE [kind |-> "fin", neg |-> neg, m |-> SubSeq(inc, 1, MantissaBits), e |-> e1 + 1]

\* `x as f64` for a u64.
u64_as_f64(x) ==
    LET bits == StripZeros(U64Bits(x))
    IN  IF bits = <<>> THEN F64Zero ELSE F64Round(bits, 0, FALSE, FALSE)

\* A number below 2^55 in two parts: hi * 2^27 + lo.
Half == 134217728

Pair(bits) ==
    LET L == Len(bits)
    IN  IF L <= 27 THEN [hi |-> 0, lo |-> BitsNat(bits)]
        ELSE [hi |-> BitsNat(SubSeq(bits, 1, L - 27)),
              lo |-> BitsNat(SubSeq(bits, L - 26, L))]

PairBits(p) ==
    StripZeros(NatBits(p.hi) \o Zeros(27 - Len(NatBits(p.lo))) \o NatBits(p.lo))

PairGe(x, y) == x.hi > y.hi \/ (x.hi = y.hi /\ x.lo >= y.lo)

PairAdd(x, y) ==
    [hi |-> x.hi + y.hi + ((x.lo + y.lo) \div Half), lo |-> (x.lo + y.lo) % Half]

\* x - y for x >= y.
PairSub(x, y) ==
    [hi |-> x.hi - y.hi - (IF x.lo < y.lo THEN 1 ELSE 0), lo |-> (x.lo - y.lo) % Half]

PairDouble(x) == PairAdd(x, x)

PairHalve(x) == [hi |-> x.hi \div 2, lo |-> (x.lo \div 2) + (x.hi % 2) * (Half \div 2)]

\* One step of the long division by b: the next binary digit of the
\* quotient and the remainder left.  s.bits are the significant digits so
\* far, s.frac the number of digits produced after the binary point.  Nothing
\* changes once 54 significant digits (53 and the rounding digit) are known.
Div1(s, b) ==
    IF Len(s.bits) = MantissaBits + 1 THEN s
    ELSE LET r2  == PairDouble(s.r)
             bit == IF PairGe(r2, b) THEN 1 ELSE 0
         IN  [r    |-> IF bit = 1 THEN PairSub(r2, b) ELSE r2,
              bits |-> IF s.bits = <<>> /\ bit = 0 THEN s.bits ELSE Append(s.bits, bit),
              frac |-> s.frac + 1]

Div8(s, b) ==
    LET s1 == Div1(s, b)
        s2 == Div1(s1, b)
        s3 == Div1(s2, b)
        s4 == Div1(s3, b)
        s5 == Div1(s4, b)
        s6 == Div1(s5, b)
        s7 == Div1(s6, b)
    IN  Div1(s7, b)

RECURSIVE DivStep(_, _)
DivStep(s, b) ==
    IF Len(s.bits) = MantissaBits + 1 THEN s ELSE DivStep(Div8(s, b), b)

\* a / b for two finite values (main.rs 148 divides two casts of a usize);
\* the sign of a quotient is the exclusive or of the signs of its operands.
F64Div(a, b) ==
    IF b.kind = "zero"
    THEN (IF a.kind = "zero" THEN F64NaN ELSE [F64Inf EXCEPT !.neg = (a.neg # b.neg)])
    ELSE IF a.kind = "zero" THEN [F64Zero EXCEPT !.neg = (a.neg # b.neg)]
    ELSE LET ma == Pair(a.m)
             mb == Pair(b.m)
             s0 == IF PairGe(ma, mb)
                   THEN [r |-> PairSub(ma, mb), bits |-> <<1>>, frac |-> 0]
                   ELSE [r |-> ma, bits |-> <<>>, frac |-> 0]
             d  == DivStep(s0, mb)
         IN  F64Round(d.bits, a.e - b.e - d.frac, d.r # [hi |-> 0, lo |-> 0],
                      a.neg # b.neg)

\* The whole number an f64 cast of a u64 is, in five limbs (it may be 2^64).
WholeLimbs(f) ==
    LET bits == IF f.kind = "zero" THEN <<>>
                ELSE IF f.e >= 0 THEN f.m \o Zeros(f.e)
                ELSE SubSeq(f.m, 1, MantissaBits + f.e)
        b    == Zeros(80 - Len(bits)) \o bits
    IN  [i \in 1..5 |-> BitsNat(SubSeq(b, 16 * i - 15, 16 * i))]

\* x - y for two five-limb numbers, x >= y.
LimbsSub(x, y) ==
    LET d5 == x[5] - y[5]
        d4 == x[4] - y[4] - (IF d5 < 0 THEN 1 ELSE 0)
        d3 == x[3] - y[3] - (IF d4 < 0 THEN 1 ELSE 0)
        d2 == x[2] - y[2] - (IF d3 < 0 THEN 1 ELSE 0)
        d1 == x[1] - y[1] - (IF d2 < 0 THEN 1 ELSE 0)
    IN  <<d1 % Limb, d2 % Limb, d3 % Limb, d4 % Limb, d5 % Limb>>

LimbsLt(x, y) ==
    \E i \in 1..Len(x) : x[i] < y[i] /\ \A j \in 1..(i - 1) : x[j] = y[j]

\* a - b for two casts of a u64: the exact difference of the two whole
\* numbers, rounded.
F64Sub(a, b) ==
    LET x    == WholeLimbs(a)
        y    == WholeLimbs(b)
        neg  == LimbsLt(x, y)
        d    == IF neg THEN LimbsSub(y, x) ELSE LimbsSub(x, y)
        bits == StripZeros(LimbBits(d[1]) \o LimbBits(d[2]) \o LimbBits(d[3])
                              \o LimbBits(d[4]) \o LimbBits(d[5]))
    IN  IF bits = <<>> THEN F64Zero ELSE F64Round(bits, 0, FALSE, neg)

\* One step of the exact product of the significands m and x: digit s.i of
\* m (from the last one down) times x is added to the carry, whose last
\* digit is the next digit of the product; s.acc are the digits known so far.
Mul1(s, m, x) ==
    IF s.i = 0 THEN s
    ELSE LET sum == IF m[s.i] = 1 THEN PairAdd(s.carry, x) ELSE s.carry
         IN  [i     |-> s.i - 1,
              carry |-> PairHalve(sum),
              acc   |-> <<sum.lo % 2>> \o s.acc]

Mul8(s, m, x) ==
    LET s1 == Mul1(s, m, x)
        s2 == Mul1(s1, m, x)
        s3 == Mul1(s2, m, x)
        s4 == Mul1(s3, m, x)
        s5 == Mul1(s4, m, x)
        s6 == Mul1(s5, m, x)
        s7 == Mul1(s6, m, x)
    IN  Mul1(s7, m, x)

RECURSIVE MulStep(_, _, _)
MulStep(s, m, x) ==
    IF s.i = 0 THEN PairBits(s.carry) \o s.acc ELSE MulStep(Mul8(s, m, x), m, x)

\* a * b (main.rs 149, 150). The sign of a product is the exclusive or of
\* the signs of its factors, of a zero product too; zero times infinity is
\* NaN. The factors of main.rs have a product below 2^128.
F64Mul(a, b) ==
    IF a.kind = "nan" \/ b.kind = "nan" THEN F64NaN
    ELSE IF a.kind = "inf" \/ b.kind = "inf"
         THEN (IF a.kind = "zero" \/ b.kind = "zero" THEN F64NaN
               ELSE [F64Inf EXCEPT !.neg = (a.neg # b.neg)])
    ELSE IF a.kind = "zero" \/ b.kind = "zero"
         THEN [F64Zero EXCEPT !.neg = (a.neg # b.neg)]
    ELSE F64Round(StripZeros(MulStep([i |-> MantissaBits, carry |-> [hi |-> 0, lo |-> 0],
                                      acc |-> <<>>], a.m, Pair(b.m))),
                  a.e + b.e, FALSE, a.neg # b.neg)

\* `f as usize`: truncation toward zero; NaN and every negative value give
\* 0, a value of 2^64 or more (and +inf) gives usize::MAX.
F64AsUsize(f) ==
    IF f.kind \in {"zero", "nan"} \/ f.neg THEN u64(0)
    ELSE IF f.kind = "inf" THEN u64_MAX
    ELSE IF MantissaBits + f.e > 64 THEN u64_MAX
    ELSE IF MantissaBits + f.e <= 0 THEN u64(0)
    ELSE IF f.e >= 0 THEN BitsU64(f.m \o Zeros(f.e))
    ELSE BitsU64(SubSeq(f.m, 1, MantissaBits + f.e))

(***************************************************************************)
(* Strings: sequences of characters.  A character outside ASCII is written *)
(* by its code point ("U+00E9").                                           *)
(***************************************************************************)
UpperCase == <<"A", "B", "C", "D", "E", "F", "G", "H", "I", "J", "K", "L", "M",
               "N", "O", "P", "Q", "R", "S", "T", "U", "V", "W", "X", "Y", "Z">>
LowerCase == <<"a", "b", "c", "d", "e", "f", "g", "h", "i", "j", "k", "l", "m",
               "n", "o", "p", "q", "r", "s", "t", "u", "v", "w", "x", "y", "z">>

\* u8::to_ascii_lowercase, one character.
to_ascii_lowercase(c) ==
    IF \E i \in 1..Len(UpperCase) : UpperCase[i] = c
    THEN LowerCase[CHOOSE i \in 1..Len(UpperCase) : UpperCase[i] = c]
    ELSE c

\* str::ends_with.
ends_with(s, suffix) ==
    /\ Len(s) >= Len(suffix)
    /\ SubSeq(s, Len(s) - Len(suffix) + 1, Len(s)) = suffix

\* normalize without the case folding.
normalize_keeps_case(chip_name) == SelectSeq(chip_name, LAMBDA c : c # "-")

\* chip_name.replace('-', "").to_ascii_lowercase()
normalize(chip_name) ==
    LET replaced == SelectSeq(chip_name, LAMBDA c : c # "-")
    IN  [i \in 1..Len(replaced) |-> to_ascii_lowercase(replaced[i])]

THIN == "U+258F"
FULL == "U+2588"

\* The digits of the code point in the name "U+XXXX" of a character.
UpperHex == <<"0", "1", "2", "3", "4", "5", "6", "7", "8", "9",
              "A", "B", "C", "D", "E", "F">>

\* The number a string of hexadecimal digits writes (a code point: at most
\* 10FFFF).
RECURSIVE HexValue(_)
HexValue(h) ==
    IF Len(h) = 0 THEN 0
    ELSE 16 * HexValue(SubSeq(h, 1, Len(h) - 1))
            + (CHOOSE d \in 0..15 : UpperHex[d + 1] = SubSeq(h, Len(h), Len(h)))

\* The code point of a character: an ASCII character is the string of itself
\* (below 0x80), any other character is named "U+" and its code point.
IsAscii(c) == Len(c) = 1
code(c) == HexValue(SubSeq(c, 3, Len(c)))

\* char::len_utf8: the bytes a character takes in UTF-8.
len_utf8(c) ==
    IF IsAscii(c) THEN 1
    ELSE IF code(c) < 128 THEN 1
    ELSE IF code(c) < 2048 THEN 2
    ELSE IF code(c) < 65536 THEN 3
    ELSE 4

\* str::len: the length of a string in bytes.
RECURSIVE len(_)
len(s) == IF s = <<>> THEN 0 ELSE len_utf8(s[1]) + len(Tail(s))

\* The Result of section.name(): Ok(name), or Err for bytes that are not UTF-8.
Ok(s) == [ok |-> TRUE, str |-> s]
Err == [ok |-> FALSE, str |-> <<>>]

Spaces(n) == [i \in 1..n |-> " "]

\* A string in a field of at least w cells, left-aligned ({:w$} of a &str);
\* the field counts characters.
PadRight(s, w) == IF Len(s) >= w THEN s ELSE s \o Spaces(w - Len(s))

\* A number in a field of at least w cells, right-aligned ({:w} of an integer).
PadLeft(s, w) == IF Len(s) >= w THEN s ELSE Spaces(w - Len(s)) \o s

HexDigit == <<"0", "1", "2", "3", "4", "5", "6", "7", "8", "9",
              "a", "b", "c", "d", "e", "f">>

\* The four hexadecimal digits of a limb.
LimbHex(l) ==
    <<HexDigit[(l \div 4096) + 1], HexDigit[((l \div 256) % 16) + 1],
      HexDigit[((l \div 16) % 16) + 1], HexDigit[(l % 16) + 1]>>

\* {:x} of a u64: its hexadecimal digits, no leading zero.
LowerHex(x) ==
    LET all == LimbHex(x[1]) \o LimbHex(x[2]) \o LimbHex(x[3]) \o LimbHex(x[4])
        sig == {i \in 1..16 : all[i] # "0"}
    IN  IF sig = {} THEN <<"0">>
        ELSE SubSeq(all, CHOOSE i \in sig : \A j \in sig : i <= j, 16)

\* x divided by ten: the quotient and the remainder.
DivTen(x) ==
    LET t1 == x[1]
        t2 == (t1 % 10) * Limb + x[2]
        t3 == (t2 % 10) * Limb + x[3]
        t4 == (t3 % 10) * Limb + x[4]
    IN  [q |-> <<t1 \div 10, t2 \div 10, t3 \div 10, t4 \div 10>>, r |-> t4 % 10]

\* {} of a u64: its decimal digits.
RECURSIVE Display(_)
Display(x) ==
    IF DivTen(x).q = <<0, 0, 0, 0>> THEN <<HexDigit[DivTen(x).r + 1]>>
    ELSE Append(Display(DivTen(x).q), HexDigit[DivTen(x).r + 1])

(***************************************************************************)
(* The flash sizes and the chip catalog.                                   *)
(***************************************************************************)
None == "None"

FlashSizes == {"_256Kb", "_512Kb", "_1Mb", "_2Mb", "_4Mb", "_8Mb", "_16Mb",
               "_32Mb", "_64Mb", "_128Mb", "_256Mb"}

\* FlashSize::bytes
bytes(self) ==
    CASE self = "_256Kb"  -> 256 * 1024
      [] self = "_512Kb"  -> 512 * 1024
      [] self = "_1Mb"    -> 1024 * 1024
      [] self = "_2Mb"    -> 2 * 1024 * 1024
      [] self = "_4Mb"    -> 4 * 1024 * 1024
      [] self = "_8Mb"    -> 8 * 1024 * 1024
      [] self = "_16Mb"   -> 16 * 1024 * 1024
      [] self = "_32Mb"   -> 32 * 1024 * 1024
      [] self = "_64Mb"   -> 64 * 1024 * 1024
      [] self = "_128Mb"  -> 128 * 1024 * 1024
      [] self = "_256Mb"  -> 256 * 1024 * 1024

\* The catalog built without the "expert" feature (the default build).
MEMORY ==
    << [name |-> <<"E", "S", "P", "3", "2">>,
        regions |-> <<
           [id |-> 0, name |-> <<"D", "R", "A", "M">>, start |-> 1073414144, length |-> 180224],  \* 0x3FFB0000, 0x2C000
           [id |-> 1, name |-> <<"I", "R", "A", "M">>, start |-> 1074266112, length |-> 131072],  \* 0x40080000, 0x20000
           [id |-> 2, name |-> <<"D", "R", "O", "M">>, start |-> 1061158912, length |-> 4194304],  \* 0x3F400000, 0x400000
           [id |-> 3, name |-> <<"I", "R", "O", "M">>, start |-> 1074593792, length |-> 4194304]  \* 0x400D0000, 0x400000
        >>],
       [name |-> <<"E", "S", "P", "3", "2", "-", "S", "2">>,
        regions |-> <<
           [id |-> 0, name |-> <<"D", "R", "A", "M">>, start |-> 1073414144, length |-> 327680],  \* 0x3FFB0000, 0x50000
           [id |-> 1, name |-> <<"I", "R", "A", "M">>, start |-> 1073872896, length |-> 327680],  \* 0x40020000, 0x50000
           [id |-> 2, name |-> <<"D", "R", "O", "M">>, start |-> 1056964608, length |-> 16252928],  \* 0x3F000000, 0xF80000
           [id |-> 3, name |-> <<"I", "R", "O", "M">>, start |-> 1074266112, length |-> 7864320]  \* 0x40080000, 0x780000
        >>],
       [name |-> <<"E", "S", "P", "3", "2", "-", "S", "3">>,
        regions |-> <<
           [id |-> 0, name |-> <<"D", "R", "A", "M">>, start |-> 1070104576, length |-> 425983],  \* 0x3FC88000, 0x67FFF
           [id |-> 1, name |-> <<"I", "R", "A", "M">>, start |-> 1077379072, length |-> 425983],  \* 0x40378000, 0x67FFF
           [id |-> 2, name |-> <<"D", "R", "O", "M">>, start |-> 1006632960, length |-> 33554431],  \* 0x3C000000, 0x1FFFFFF
           [id |-> 3, name |-> <<"I", "R", "O", "M">>, start |-> 1107296256, length |-> 33554431]  \* 0x42000000, 0x1FFFFFF
        >>],
       [name |-> <<"E", "S", "P", "3", "2", "-", "C", "2">>,
        regions |-> <<
           [id |-> 0, name |-> <<"D", "R", "A", "M">>, start |-> 1070202880, length |-> 262144],  \* 0x3FCA0000, 0x40000
           [id |-> 1, name |-> <<"I", "R", "A", "M">>, start |-> 1077395456, length |-> 278528],  \* 0x4037C000, 0x44000
           [id |-> 2, name |-> <<"D", "R", "O", "M">>, start |-> 1006632960, length |-> 4194304],  \* 0x3C000000, 0x400000
           [id |-> 3, name |-> <<"I", "R", "O", "M">>, start |-> 1107296256, length |-> 4194304]  \* 0x42000000, 0x400000
        >>],
       [name |-> <<"E", "S", "P", "3", "2", "-", "C", "3">>,
        regions |-> <<
           [id |-> 0, name |-> <<"D", "R", "A", "M">>, start |-> 1070071808, length |-> 327680],  \* 0x3FC80000, 0x50000
           [id |-> 1, name |-> <<"I", "R", "A", "M">>, start |-> 1077395456, length |-> 409600],  \* 0x4037C000, 0x64000
           [id |-> 2, name |-> <<"D", "R", "O", "M">>, start |-> 1006632960, length |-> 4194304],  \* 0x3C000000, 0x400000
           [id |-> 3, name |-> <<"I", "R", "O", "M">>, start |-> 1107296256, length |-> 4194304]  \* 0x42000000, 0x400000
        >>],
       [name |-> <<"E", "S", "P", "3", "2", "-", "C", "6">>,
        regions |-> <<
           [id |-> 0, name |-> <<"R", "A", "M">>, start |-> 1082130432, length |-> 524288],  \* 0x40800000, 0x80000
           [id |-> 1, name |-> <<"R", "O", "M">>, start |-> 1107296256, length |-> 16777216]  \* 0x42000000, 0x1000000
        >>],
       [name |-> <<"E", "S", "P", "3", "2", "-", "H", "2">>,
        regions |-> <<
           [id |-> 0, name |-> <<"D", "R", "A", "M">>, start |-> 1082130432, length |-> 327680],  \* 0x40800000, 0x50000
           [id |-> 1, name |-> <<"R", "O", "M">>, start |-> 1107296256, length |-> 16777216]  \* 0x42000000, 0x1000000
        >>] >>

ROM == <<"R", "O", "M">>

\* MemoryRegion::end without the test of the region's name.
end_of_any_name(self, flash_size) ==
    LET length == IF flash_size # None THEN bytes(flash_size) ELSE self.length
    IN  self.start + length

\* MemoryRegion::end; every start and length of the catalog and every flash
\* size is below 2^31, and so is their sum.
end(self, flash_size) ==
    LET length == IF ends_with(self.name, ROM) /\ flash_size # None
                  THEN bytes(flash_size)
                  ELSE self.length
    IN  self.start + length

\* MEMORY.iter().find(|m| normalize(m.name) == chip): the index of the first
\* chip of the catalog with that normalized name, 0 for None.
find_chip(chip) ==
    LET hits == {i \in 1..Len(MEMORY) : normalize(MEMORY[i].name) = chip}
    IN  IF hits = {} THEN 0 ELSE CHOOSE i \in hits : \A j \in hits : i <= j

\* chip_memory.regions.iter().find(..) for a section at `address` of `size`
\* bytes: the index of the first region the closure accepts, 0 for None.
\* The closure adds address and size for every region that starts at or
\* before the address; a sum of 2^64 or more panics there when the build
\* checks overflow and wraps when it does not.
find_region(regions, flash_size, address, size, overflow_checks) ==
    LET sum   == overflowing_add(address, size)
        added == {i \in 1..Len(regions) : Le(u64(regions[i].start), address)}
        hits  == {i \in added : Le(sum.value, u64(end(regions[i], flash_size)))}
    IN  IF added # {} /\ sum.overflow /\ overflow_checks
        THEN [panicked |-> TRUE, region |-> 0]
        ELSE [panicked |-> FALSE,
              region   |-> IF hits = {} THEN 0
                           ELSE CHOOSE i \in hits : \A j \in hits : i <= j]

(***************************************************************************)
(* print_memory: the cells it prints, as one run of cells for each print!  *)
(* outside a loop and for each loop: the opening bracket, the blanks of    *)
(* the offset, the fill, the trailing blanks, the closing bracket.  A run  *)
(* is a glyph and the count of its cells, a usize: a loop prints as many   *)
(* cells as its range holds, whatever the count.  status is "ok" when the  *)
(* bar is complete and "panicked" when a subtraction went below zero in a  *)
(* build that checks overflow (`at` is the line, out the runs printed      *)
(* before it).                                                             *)
(***************************************************************************)
Run(glyph, count) == [glyph |-> glyph, count |-> count]

\* main.rs 152-170: the loops of print_memory, from the offset and the w of
\* lines 148-150.  `width - w - offset` is computed with the w that line 153
\* raised; without overflow checks it wraps at 2^64.
draw(offset, w, width, overflow_checks) ==
    LET small == w = u64(0)
        fill  == IF small THEN u64(1) ELSE w
        glyph == IF small THEN THIN ELSE FULL
        left  == overflowing_sub(width, fill)
        pad   == overflowing_sub(left.value, offset)
        head  == <<Run("[", u64(1)), Run(" ", offset), Run(glyph, fill)>>
    IN  IF (left.overflow \/ pad.overflow) /\ overflow_checks
        THEN [status |-> "panicked", at |-> 167, out |-> head]
        ELSE [status |-> "ok", at |-> 0,
              out |-> head \o <<Run(" ", pad.value), Run("]", u64(1))>>]

\* main.rs 148-150: offset and w, from width as f64 / region_size as f64.
scaled(ratio, region_start, block_start, block_size, width, overflow_checks) ==
    draw(F64AsUsize(F64Mul(ratio, F64Sub(u64_as_f64(block_start), u64_as_f64(region_start)))),
         F64AsUsize(F64Mul(ratio, u64_as_f64(block_size))),
         width, overflow_checks)

print_memory(region_start, region_end, block_start, block_size, width, overflow_checks) ==
    LET region_size == overflowing_sub(region_end, region_start)
    IN  IF region_size.overflow /\ overflow_checks
        THEN [status |-> "panicked", at |-> 147, out |-> <<>>]
        ELSE scaled(F64Div(u64_as_f64(width), u64_as_f64(region_size.value)),
                    region_start, block_start, block_size, width, overflow_checks)

(***************************************************************************)
(* The inputs of a run: the command line, what the file path holds, the    *)
(* sections of the object file in the order the object file lists them,    *)
(* and whether the build checks integer overflow (debug) or lets it wrap   *)
(* (release).                                                              *)
(***************************************************************************)
MaxSections == 3

\*   .text   0x400D0010, 0x100: ESP32 IROM
\*   .data   0x3FFB0000, 0x2C000: all of ESP32 DRAM
\*   .bss    0x3FFB0000, 0x10: same address as .data
\*   .span   0x40100000, 0x400000: across the end of ESP32 IROM
\*   .vec    0x40378000, 0x400: ESP32-S3 IRAM, ESP32 IROM
\*   .debug  address 0
\*   .empty  size 0
SectionPool ==
    { [name |-> Ok(<<".", "t", "e", "x", "t">>), address |-> u64(1074593808), size |-> u64(256)],
      [name |-> Ok(<<".", "d", "a", "t", "a">>), address |-> u64(1073414144), size |-> u64(180224)],
      [name |-> Ok(<<".", "b", "s", "s">>), address |-> u64(1073414144), size |-> u64(16)],
      [name |-> Ok(<<".", "s", "p", "a", "n">>), address |-> u64(1074790400), size |-> u64(4194304)],
      [name |-> Ok(<<".", "v", "e", "c">>), address |-> u64(1077379072), size |-> u64(1024)],
      [name |-> Ok(<<".", "d", "e", "b", "u", "g">>), address |-> u64(0), size |-> u64(1280)],
      [name |-> Ok(<<".", "e", "m", "p", "t", "y">>), address |-> u64(1074266112), size |-> u64(0)] }

\* Sections a 64-bit object file or a foreign tool chain can hold:
\*   .hi     0xFFFFFFFFFFFFFF00, 0x200: address + size is 2^64 + 0x100
\*   .top    0xFFFFFFFFFFFFFFF0, 0x8000000F: address + size is 2^64 + 0x7FFFFFFF
\*   .tUxt   0x400D0200, 0x100: a name of five characters and six bytes
\*   (Err)   0x3FFB0100, 0x10: a name that is not UTF-8
OddSections ==
    { [name |-> Ok(<<".", "h", "i">>), address |-> <<65535, 65535, 65535, 65280>>, size |-> u64(512)],
      [name |-> Ok(<<".", "t", "o", "p">>), address |-> <<65535, 65535, 65535, 65520>>,
       size |-> <<0, 0, 32768, 15>>],
      [name |-> Ok(<<".", "t", "U+00EB", "x", "t">>), address |-> u64(1074594304), size |-> u64(256)],
      [name |-> Err, address |-> u64(1073414400), size |-> u64(16)] }

\* The command line as typed: the text after --chip, --flash-size and
\* --width; <<>> and "" stand for an option that is not given.
ChipArgs == { <<"E", "S", "P", "3", "2">>,
             <<"e", "s", "p", "3", "2", "-", "s", "3">>,
             <<"E", "S", "P", "3", "2", "S", "3">>,
             <<"E", "S", "P", "9", "9">> }

FlashArgs == {"", "_4Mb", "_16Mb"}

\* Without --width the width is 120; the smallest ones leave the bar one
\* cell, no cell, or less than none; the largest is usize::MAX.
WidthArgs == { <<>>, <<"+", "9", "1">>, <<"3", "2">>, <<"3", "1">>, <<"3", "0">>,
               <<"1", "8", "4", "4", "6", "7", "4", "4", "0", "7",
                 "3", "7", "0", "9", "5", "5", "1", "6", "1", "5">> }

\* The command lines of the model: at most one option is not the base one.
BaseArgv == [chip |-> <<"E", "S", "P", "3", "2">>, flash_size |-> "", width |-> <<>>]

ArgvSet ==
    {[BaseArgv EXCEPT !.chip = c] : c \in ChipArgs}
        \cup {[BaseArgv EXCEPT !.flash_size = f] : f \in FlashArgs}
        \cup {[BaseArgv EXCEPT !.width = w] : w \in WidthArgs}

\* Command lines Args::parse rejects: no --chip, a flash size that is none
\* of the eleven, a width that is no number or no usize (2^64).
BadArgvSet ==
    { [BaseArgv EXCEPT !.chip = <<>>],
      [BaseArgv EXCEPT !.flash_size = "_3Mb"],
      [BaseArgv EXCEPT !.width = <<"-", "1">>],
      [BaseArgv EXCEPT !.width = <<"1", "8", "4", "4", "6", "7", "4", "4", "0", "7",
                                   "3", "7", "0", "9", "5", "5", "1", "6", "1", "6">>] }

\* An object file lists a section once.
NoRepeat(q) == \A i, j \in 1..Len(q) : i # j => q[i] # q[j]

RECURSIVE SeqsUpTo(_, _)
SeqsUpTo(S, n) ==
    IF n = 0 THEN {<<>>}
    ELSE LET shorter == SeqsUpTo(S, n - 1)
         IN  shorter \cup {Append(q, x) : q \in shorter, x \in S}

\* The object files of the model: up to MaxSections sections of the pool,
\* or one odd section alone, before or behind another section.
Files ==
    {q \in SeqsUpTo(SectionPool, MaxSections) : NoRepeat(q)}
        \cup {q \in SeqsUpTo(SectionPool \cup OddSections, 2) :
                 NoRepeat(q) /\ \E i \in 1..Len(q) : q[i] \in OddSections}

(***************************************************************************)
(* main                                                                    *)
(***************************************************************************)
VARIABLES
    argv,                    \* the command line
    file,                    \* what args.file holds: "object", "missing", "garbage"
    input,                   \* obj_file.sections()
    overflow_checks,         \* the build: TRUE panics on integer overflow
    args,                    \* Args: chip, flash_size, width
    sections,                \* the Vec main filters, sorts and iterates
    next,                    \* the position of `for section in sections`
    chip_memory,             \* index into MEMORY of the chip found, 0 before
    last_region,
    section_name_max_width,
    stdout,                  \* the lines printed, in order
    stderr,
    pc,
    exit_code

vars == <<argv, file, input, overflow_checks, args, sections, next, chip_memory,
          last_region, section_name_max_width, stdout, stderr, pc, exit_code>>

\* The overhead main subtracts from args.width.
Overhead == 26

\* default_value = "120"
DefaultWidth == <<"1", "2", "0">>

IsDigit(c) == \E i \in 1..10 : HexDigit[i] = c

\* result.checked_mul(10) and then checked_add(d), of usize::from_str: ten
\* times x plus the digit d, and whether it passes usize::MAX.
MulTenAdd(x, d) ==
    LET l4 == 10 * x[4] + d
        l3 == 10 * x[3] + (l4 \div Limb)
        l2 == 10 * x[2] + (l3 \div Limb)
        l1 == 10 * x[1] + (l2 \div Limb)
    IN  [value    |-> <<l1 % Limb, l2 % Limb, l3 % Limb, l4 % Limb>>,
         overflow |-> l1 >= Limb]

\* One turn of the loop of usize::from_str over the digits: the number so
\* far with the character s[i] read, or the error (a character that is no
\* digit, a number above usize::MAX); past the end of s and after an error
\* nothing is read.
Read1(result, s, i) ==
    IF i > Len(s) \/ ~result.ok THEN result
    ELSE IF ~IsDigit(s[i]) THEN [ok |-> FALSE, value |-> u64(0), kind |-> "InvalidDigit"]
    ELSE IF MulTenAdd(result.value, CHOOSE d \in 0..9 : HexDigit[d + 1] = s[i]).overflow
         THEN [ok |-> FALSE, value |-> u64(0), kind |-> "PosOverflow"]
    ELSE [ok    |-> TRUE,
          value |-> MulTenAdd(result.value, CHOOSE d \in 0..9 : HexDigit[d + 1] = s[i]).value,
          kind  |-> "Ok"]

Read8(result, s, i) ==
    LET r1 == Read1(result, s, i)
        r2 == Read1(r1, s, i + 1)
        r3 == Read1(r2, s, i + 2)
        r4 == Read1(r3, s, i + 3)
        r5 == Read1(r4, s, i + 4)
        r6 == Read1(r5, s, i + 5)
        r7 == Read1(r6, s, i + 6)
    IN  Read1(r7, s, i + 7)

\* The loop: the digits are read from the left until the first error.
RECURSIVE from_digits(_, _, _)
from_digits(result, s, i) ==
    IF i > Len(s) \/ ~result.ok THEN result
    ELSE from_digits(Read8(result, s, i), s, i + 8)

\* What usize::from_str reads the digits from: the string without one
\* leading "+".
Unsigned(s) == IF s # <<>> /\ s[1] = "+" THEN SubSeq(s, 2, Len(s)) ELSE s

\* usize::from_str: the number a string writes in decimal, as clap hands
\* the value of --width to it; Err for the empty string, for a sign alone,
\* for a character that is no digit and for a number above usize::MAX.
from_str(s) ==
    IF s = <<>> THEN [ok |-> FALSE, value |-> u64(0), kind |-> "Empty"]
    ELSE IF Unsigned(s) = <<>>
         THEN [ok |-> FALSE, value |-> u64(0), kind |-> "InvalidDigit"]
    ELSE from_digits([ok |-> TRUE, value |-> u64(0), kind |-> "Ok"], Unsigned(s), 1)

\* usize::from_str accepts the string.
IsUsize(s) == from_str(s).ok

\* Args::parse(): the arguments, or the refusal of the command line.
Args_parse(line) ==
    LET width == IF line.width = <<>> THEN DefaultWidth ELSE line.width
    IN  [ok   |-> /\ line.chip # <<>>
                  /\ line.flash_size \in FlashSizes \cup {""}
                  /\ IsUsize(width),
         args |-> [chip       |-> line.chip,
                   flash_size |-> IF line.flash_size = "" THEN None ELSE line.flash_size,
                   width      |-> from_str(width).value]]

NoArgs == [chip |-> <<>>, flash_size |-> None, width |-> u64(0)]

\* sections.sort_by(|a, b| a.address().partial_cmp(&b.address()).unwrap()):
\* a stable sort; each section goes behind those of the same address.
Insert(sorted, x) ==
    LET k == Cardinality({i \in 1..Len(sorted) : Le(sorted[i].address, x.address)})
    IN  SubSeq(sorted, 1, k) \o <<x>> \o SubSeq(sorted, k + 1, Len(sorted))

RECURSIVE sort_by_address(_)
sort_by_address(s) ==
    IF s = <<>> THEN <<>>
    ELSE Insert(sort_by_address(SubSeq(s, 1, Len(s) - 1)), s[Len(s)])

\* .filter(|section| section.address() != 0 && section.size() != 0)
filter(s) ==
    SelectSeq(s, LAMBDA section : section.address # u64(0) /\ section.size # u64(0))

Max(S) == IF S = {} THEN 0 ELSE CHOOSE x \in S : \A y \in S : y <= x

\* "{:width$} {:8x} {:7}"
BaseColumns(section, width) ==
    PadRight(section.name.str, width) \o <<" ">>
        \o PadLeft(LowerHex(section.address), 8) \o <<" ">>
        \o PadLeft(Display(section.size), 7)

\* " {:8} "
RegionColumn(region) == <<" ">> \o PadRight(region.name, 8) \o <<" ">>

BlankLine == [kind |-> "blank", text |-> <<>>, complete |-> TRUE]

UnknownChipLine ==
    [kind |-> "diagnostic", complete |-> TRUE,
     text |-> <<"U", "n", "k", "n", "o", "w", "n", " ", "c", "h", "i", "p">>]

\* The state main starts in, for a command line, a file and a build.
Start(line, f, q, checks) ==
    /\ argv = line
    /\ file = f
    /\ input = q
    /\ overflow_checks = checks
    /\ args = NoArgs
    /\ sections = <<>>
    /\ next = 1
    /\ chip_memory = 0
    /\ last_region = u64_MAX
    /\ section_name_max_width = 0
    /\ stdout = <<>>
    /\ stderr = <<>>
    /\ pc = "start"
    /\ exit_code = -1

\* The runs that never come to the sections: a command line Args::parse
\* rejects, a path without a file, a file that is no object file.
Refused(checks) ==
    \/ \E line \in BadArgvSet : Start(line, "object", <<>>, checks)
    \/ \E c \in ChipArgs, f \in {"missing", "garbage"} :
          Start([BaseArgv EXCEPT !.chip = c], f, <<>>, checks)

Init ==
    \E checks \in BOOLEAN :
        \/ \E line \in ArgvSet : \E q \in Files : Start(line, "object", q, checks)
        \/ Refused(checks)

(***************************************************************************)
(* The runs that draw one bar: every chip of the catalog (and an unknown   *)
(* one), three flash sizes, one section laid at the edges of a region, and *)
(* every bar width from 0 to MaxBarWidth; and one run for every odd        *)
(* section and every refusal.                                              *)
(***************************************************************************)
MaxBarWidth == 40

BarChips == {MEMORY[c].name : c \in 1..Len(MEMORY)} \cup {<<"E", "S", "P", "9", "9">>}

BarFlash == {"", "_256Kb", "_256Mb"}

\* Where a section lies in the region from start to stop: over all of it, on
\* its first byte, on its last byte, over its upper half, across its end.
Placements == {"all", "first", "last", "upper", "across"}

Placed(start, stop, p) ==
    LET half == (stop - start) \div 2
    IN  CASE p = "all"    -> [address |-> u64(start), size |-> u64(stop - start)]
          [] p = "first"  -> [address |-> u64(start), size |-> u64(1)]
          [] p = "last"   -> [address |-> u64(stop - 1), size |-> u64(1)]
          [] p = "upper"  -> [address |-> u64(start + half), size |-> u64(stop - start - half)]
          [] p = "across" -> [address |-> u64(stop - 1), size |-> u64(2)]

BarSections(chip, flash) ==
    LET c       == IF find_chip(normalize(chip)) = 0 THEN 1 ELSE find_chip(normalize(chip))
        regions == MEMORY[c].regions
        stop(i) == end(regions[i], IF flash = "" THEN None ELSE flash)
    IN  {[name    |-> Ok(<<".", "t", "e", "x", "t">>),
          address |-> Placed(regions[i].start, stop(i), p).address,
          size    |-> Placed(regions[i].start, stop(i), p).size] :
             i \in 1..Len(regions), p \in Placements}

\* The digits of a number below 1000, as typed after --width.
Typed(n) ==
    IF n < 10 THEN <<HexDigit[n + 1]>>
    ELSE IF n < 100 THEN <<HexDigit[(n \div 10) + 1], HexDigit[(n % 10) + 1]>>
    ELSE <<HexDigit[(n \div 100) + 1], HexDigit[((n \div 10) % 10) + 1], HexDigit[(n % 10) + 1]>>

InitBars ==
    \/ \E chip \in BarChips, flash \in BarFlash, width \in 0..MaxBarWidth :
          \E section \in BarSections(chip, flash) :
             Start([chip |-> chip, flash_size |-> flash,
                    width |-> Typed(width + len(section.name.str) + Overhead)],
                   "object", <<section>>, TRUE)
    \/ \E checks \in BOOLEAN :
          \/ \E section \in OddSections : Start(BaseArgv, "object", <<section>>, checks)
          \/ Refused(checks)

\* main.rs 71: the command line is rejected; clap prints the error and
\* exits with status 2.
Args_parse_error ==
    /\ pc = "start"
    /\ ~Args_parse(argv).ok
    /\ stderr' = Append(stderr, "error: invalid command line")
    /\ exit_code' = 2
    /\ pc' = "exited"
    /\ UNCHANGED <<argv, file, input, overflow_checks, args, sections, next,
                   chip_memory, last_region, section_name_max_width, stdout>>

\* main.rs 73: fs::read(args.file)? fails; main returns the Err.
fs_read_error ==
    /\ pc = "start"
    /\ Args_parse(argv).ok
    /\ file = "missing"
    /\ args' = Args_parse(argv).args
    /\ stderr' = Append(stderr, "Error: Os { code: 2, kind: NotFound }")
    /\ exit_code' = 1
    /\ pc' = "exited"
    /\ UNCHANGED <<argv, file, input, overflow_checks, sections, next,
                   chip_memory, last_region, section_name_max_width, stdout>>

\* main.rs 74: object::File::parse(&*bin_data)? fails; main returns the Err.
File_parse_error ==
    /\ pc = "start"
    /\ Args_parse(argv).ok
    /\ file = "garbage"
    /\ args' = Args_parse(argv).args
    /\ stderr' = Append(stderr, "Error: Could not read file magic")
    /\ exit_code' = 1
    /\ pc' = "exited"
    /\ UNCHANGED <<argv, file, input, overflow_checks, sections, next,
                   chip_memory, last_region, section_name_max_width, stdout>>

\* main.rs 71-81: the arguments and the file are read; the sections of
\* address 0 or size 0 are dropped, the others sorted by address.
Collect ==
    /\ pc = "start"
    /\ Args_parse(argv).ok
    /\ file = "object"
    /\ args' = Args_parse(argv).args
    /\ sections' = sort_by_address(filter(input))
    /\ pc' = "lookup"
    /\ UNCHANGED <<argv, file, input, overflow_checks, next, chip_memory,
                   last_region, section_name_max_width, stdout, stderr, exit_code>>

\* main.rs 83-89, the chip is in the catalog.
LookupChip ==
    /\ pc = "lookup"
    /\ find_chip(normalize(args.chip)) # 0
    /\ chip_memory' = find_chip(normalize(args.chip))
    /\ pc' = "prepare"
    /\ UNCHANGED <<argv, file, input, overflow_checks, args, sections, next,
                   last_region, section_name_max_width, stdout, stderr, exit_code>>

\* main.rs 86-89: println!("Unknown chip"); exit(1).
UnknownChip ==
    /\ pc = "lookup"
    /\ find_chip(normalize(args.chip)) = 0
    /\ stdout' = Append(stdout, UnknownChipLine)
    /\ exit_code' = 1
    /\ pc' = "exited"
    /\ UNCHANGED <<argv, file, input, overflow_checks, args, sections, next,
                   chip_memory, last_region, section_name_max_width, stderr>>

\* main.rs 91-100: the sentinel and the width of the name column, the
\* longest name in bytes.
Prepare ==
    /\ pc = "prepare"
    /\ \A i \in 1..Len(sections) : sections[i].name.ok
    /\ last_region' = u64_MAX
    /\ section_name_max_width' =
           Max({len(sections[i].name.str) : i \in 1..Len(sections)})
    /\ pc' = "loop"
    /\ UNCHANGED <<argv, file, input, overflow_checks, args, sections, next,
                   chip_memory, stdout, stderr, exit_code>>

\* main.rs 96: section.name().unwrap() on a name that is not UTF-8.
unwrap_panic ==
    /\ pc = "prepare"
    /\ \E i \in 1..Len(sections) : ~sections[i].name.ok
    /\ stderr' = Append(stderr, "panicked at src/main.rs:96: called Result::unwrap() on an Err value")
    /\ exit_code' = 101
    /\ pc' = "panicked"
    /\ UNCHANGED <<argv, file, input, overflow_checks, args, sections, next,
                   chip_memory, last_region, section_name_max_width, stdout>>

\* The region of sections[next]: an index into the chip's regions, 0 for
\* None; or the panic of the addition.
Resolve ==
    find_region(MEMORY[chip_memory].regions, args.flash_size,
                sections[next].address, sections[next].size, overflow_checks)

\* main.rs 105: address + size overflows in a build that checks it.
add_panic ==
    /\ pc = "loop"
    /\ next <= Len(sections)
    /\ Resolve.panicked
    /\ stderr' = Append(stderr, "panicked at src/main.rs:105: attempt to add with overflow")
    /\ exit_code' = 101
    /\ pc' = "panicked"
    /\ UNCHANGED <<argv, file, input, overflow_checks, args, sections, next,
                   chip_memory, last_region, section_name_max_width, stdout>>

\* Separated with a blank line before every placed section.
Separated_always(region) == Append(stdout, BlankLine)

\* if region.id != last_region { println!(); .. }
Separated(region) ==
    IF u64(region.id) # last_region THEN Append(stdout, BlankLine) ELSE stdout

\* args.width - section_name_max_width - 26
BarWidth ==
    LET left == overflowing_sub(args.width, u64(section_name_max_width))
        rest == overflowing_sub(left.value, u64(Overhead))
    IN  [value |-> rest.value, overflow |-> left.overflow \/ rest.overflow]

\* The bar of sections[next] in the region of index r: what print_memory
\* prints, or the panic of the width's subtraction before it is called.
Bar(r) ==
    LET region == MEMORY[chip_memory].regions[r]
    IN  IF BarWidth.overflow /\ overflow_checks
        THEN [status |-> "panicked", at |-> 130, out |-> <<>>]
        ELSE print_memory(u64(region.start), u64(end(region, args.flash_size)),
                          sections[next].address, sections[next].size,
                          BarWidth.value, overflow_checks)

\* The line of a section in region r, as far as it was printed: text is
\* the columns of main.rs 115-124, bar the runs of cells print_memory
\* printed behind them.
PlacedLine(section, r, region, width, runs, complete) ==
    [kind |-> "section", complete |-> complete,
     text |-> BaseColumns(section, section_name_max_width) \o RegionColumn(region),
     section |-> section, region |-> r,
     region_end |-> end(region, args.flash_size),
     width |-> width, bar |-> runs]

\* One turn of the loop (main.rs 102-135) for a section in no region: the
\* three base columns only.
PrintUnplaced ==
    /\ pc = "loop"
    /\ next <= Len(sections)
    /\ ~Resolve.panicked
    /\ Resolve.region = 0
    /\ stdout' = Append(stdout,
           [kind |-> "section", complete |-> TRUE,
            text |-> BaseColumns(sections[next], section_name_max_width),
            section |-> sections[next], region |-> 0])
    /\ next' = next + 1
    /\ UNCHANGED <<argv, file, input, overflow_checks, args, sections,
                   chip_memory, last_region, section_name_max_width, stderr,
                   pc, exit_code>>

\* main.rs 108-134 with the bar complete: the separator when the region
\* changed, the base columns, the region's name, the bar and the newline.  A
\* subtraction that went below zero in a build without overflow checks has
\* wrapped, and the bar is complete with the counts that came of it.
println(r, region, bar) ==
    /\ bar.status = "ok"
    /\ stdout' = Append(Separated(region),
           PlacedLine(sections[next], r, region, BarWidth.value, bar.out, TRUE))
    /\ last_region' = u64(region.id)
    /\ next' = next + 1
    /\ UNCHANGED <<pc, exit_code, stderr>>

\* main.rs 108-131 with the bar cut short by a panic, which ends the run.
cut_short(r, region, bar) ==
    /\ bar.status = "panicked"
    /\ stdout' = Append(Separated(region),
           PlacedLine(sections[next], r, region, BarWidth.value, bar.out, FALSE))
    /\ last_region' = u64(region.id)
    /\ pc' = "panicked"
    /\ exit_code' = 101
    /\ stderr' = Append(stderr,
           IF bar.at = 130
           THEN "panicked at src/main.rs:130: attempt to subtract with overflow"
           ELSE IF bar.at = 147
           THEN "panicked at src/main.rs:147: attempt to subtract with overflow"
           ELSE "panicked at src/main.rs:167: attempt to subtract with overflow")
    /\ UNCHANGED next

\* One turn of the loop for a section in a region.
PrintPlaced ==
    /\ pc = "loop"
    /\ next <= Len(sections)
    /\ ~Resolve.panicked
    /\ Resolve.region # 0
    /\ println(Resolve.region, MEMORY[chip_memory].regions[Resolve.region], Bar(Resolve.region))
    /\ UNCHANGED <<argv, file, input, overflow_checks, args, sections,
                   chip_memory, section_name_max_width>>

\* One turn of the loop in which a usize subtraction goes below zero in a
\* build that checks overflow: in `args.width - section_name_max_width - 26`
\* (main.rs 130), in print_memory's `region_end - region_start` (main.rs 147)
\* or in its `width - w - offset` (main.rs 167).  The panic ends the run
\* behind what the line had printed.
Overflow ==
    /\ pc = "loop"
    /\ next <= Len(sections)
    /\ ~Resolve.panicked
    /\ Resolve.region # 0
    /\ cut_short(Resolve.region, MEMORY[chip_memory].regions[Resolve.region], Bar(Resolve.region))
    /\ UNCHANGED <<argv, file, input, overflow_checks, args, sections,
                   chip_memory, section_name_max_width>>

\* main.rs 137: Ok(()).
Finish ==
    /\ pc = "loop"
    /\ next > Len(sections)
    /\ pc' = "done"
    /\ exit_code' = 0
    /\ UNCHANGED <<argv, file, input, overflow_checks, args, sections, next,
                   chip_memory, last_region, section_name_max_width, stdout, stderr>>

Next ==
    \/ Args_parse_error
    \/ fs_read_error
    \/ File_parse_error
    \/ Collect
    \/ LookupChip
    \/ UnknownChip
    \/ Prepare
    \/ unwrap_panic
    \/ add_panic
    \/ PrintUnplaced
    \/ PrintPlaced
    \/ Overflow
    \/ Finish

Spec == Init /\ [][Next]_vars

SpecBars == InitBars /\ [][Next]_vars

(***************************************************************************)
(* The properties checked.                                                 *)
(***************************************************************************)
IsSection(k) == stdout[k].kind = "section"
IsPlaced(k)  == stdout[k].kind = "section" /\ stdout[k].region # 0
RegionOf(k)  == MEMORY[chip_memory].regions[stdout[k].region]

\* address + size <= stop, in exact arithmetic.
EndsBy(section, stop) ==
    /\ ~overflowing_add(section.address, section.size).overflow
    /\ Le(overflowing_add(section.address, section.size).value, u64(stop))

\* The regions of the chip that hold the whole section of line k.
Fitting(k) ==
    {i \in 1..Len(MEMORY[chip_memory].regions) :
        LET region == MEMORY[chip_memory].regions[i]
        IN  /\ Le(u64(region.start), stdout[k].section.address)
            /\ EndsBy(stdout[k].section, end(region, args.flash_size))}

\* C1: a printed section has a region iff some region of the chip holds it
\* whole (start <= address and address + size <= end under the capacity);
\* the region is then the first such one in the catalog's order; a section
\* that no single region holds is printed with its name, address and size
\* columns only.
C1_RegionResolution ==
    \A k \in 1..Len(stdout) : IsSection(k) =>
        /\ (stdout[k].region # 0) <=> (Fitting(k) # {})
        /\ stdout[k].region # 0 =>
              /\ stdout[k].region \in Fitting(k)
              /\ \A i \in Fitting(k) : stdout[k].region <= i
        /\ stdout[k].region = 0 =>
              /\ stdout[k].text = BaseColumns(stdout[k].section, section_name_max_width)
              /\ \A i \in 1..Len(stdout[k].text) : stdout[k].text[i] # "["

\* The statement of C1 for the sections whose address + size is below 2^64.
C1_WithoutWrap ==
    \A k \in 1..Len(stdout) :
        (IsSection(k) /\ ~overflowing_add(stdout[k].section.address,
                                          stdout[k].section.size).overflow) =>
            /\ (stdout[k].region # 0) <=> (Fitting(k) # {})
            /\ stdout[k].region # 0 => \A i \in Fitting(k) : stdout[k].region <= i

EndsInROM(name) ==
    /\ Len(name) >= 3
    /\ name[Len(name) - 2] = "R"
    /\ name[Len(name) - 1] = "O"
    /\ name[Len(name)] = "M"

CapacityKB ==
    [f \in FlashSizes |->
        CASE f = "_256Kb" -> 256    [] f = "_512Kb" -> 512
          [] f = "_1Mb"   -> 1024   [] f = "_2Mb"   -> 2048
          [] f = "_4Mb"   -> 4096   [] f = "_8Mb"   -> 8192
          [] f = "_16Mb"  -> 16384  [] f = "_32Mb"  -> 32768
          [] f = "_64Mb"  -> 65536  [] f = "_128Mb" -> 131072
          [] f = "_256Mb" -> 262144]

EffectiveEnd(region, f) ==
    IF f # None /\ EndsInROM(region.name)
    THEN region.start + 1024 * CapacityKB[f]
    ELSE region.start + region.length

\* C2: the effective end of a region is start + capacity exactly when a
\* capacity was given and the region's name ends with "ROM", and start +
\* the fixed length in every other case: for every region of the catalog
\* under every capacity (compared once, at the start of the runs on an empty
\* file), and for the end every printed bar was scaled to.
C2_FlashOverride ==
    /\ (pc = "start" /\ input = <<>>) =>
          \A c \in 1..Len(MEMORY) : \A i \in 1..Len(MEMORY[c].regions) :
             \A f \in FlashSizes \cup {None} :
                end(MEMORY[c].regions[i], f) = EffectiveEnd(MEMORY[c].regions[i], f)
    /\ \A k \in 1..Len(stdout) : IsPlaced(k) =>
          stdout[k].region_end = EffectiveEnd(RegionOf(k), args.flash_size)

\* With a capacity given, one line in a ROM region scaled to the capacity
\* and one line in a region of another name scaled to its fixed length.
C2_Witness ==
    /\ args.flash_size # None
    /\ \E k \in 1..Len(stdout) :
          /\ IsPlaced(k)
          /\ EndsInROM(RegionOf(k).name)
          /\ stdout[k].region_end = RegionOf(k).start + bytes(args.flash_size)
          /\ stdout[k].region_end # RegionOf(k).start + RegionOf(k).length
    /\ \E k \in 1..Len(stdout) :
          /\ IsPlaced(k)
          /\ ~EndsInROM(RegionOf(k).name)
          /\ stdout[k].region_end = RegionOf(k).start + RegionOf(k).length

\* A u64 as a five-limb number, and the sum of two five-limb numbers (below
\* 2^80).
Wide(x) == <<0>> \o x

LimbsAdd(x, y) ==
    LET s5 == x[5] + y[5]
        s4 == x[4] + y[4] + (s5 \div Limb)
        s3 == x[3] + y[3] + (s4 \div Limb)
        s2 == x[2] + y[2] + (s3 \div Limb)
        s1 == x[1] + y[1] + (s2 \div Limb)
    IN  <<s1 % Limb, s2 % Limb, s3 % Limb, s4 % Limb, s5 % Limb>>

\* The number of cells of a bar: the counts of its runs, added up exactly.
RECURSIVE Cells(_)
Cells(bar) ==
    IF bar = <<>> THEN Wide(u64(0)) ELSE LimbsAdd(Wide(bar[1].count), Cells(Tail(bar)))

\* Line k shows a call of the renderer (it printed the opening bracket at
\* least) for a section of size >= 1 that lies inside its region (start <=
\* address and address + size <= end, taken exactly), with a width of 1 or
\* more.
Inside(k) ==
    /\ IsPlaced(k)
    /\ stdout[k].bar # <<>>
    /\ stdout[k].width # u64(0)
    /\ stdout[k].section.size # u64(0)
    /\ Le(u64(RegionOf(k).start), stdout[k].section.address)
    /\ EndsBy(stdout[k].section, stdout[k].region_end)

\* The section of line k fills its region from the first byte to the last.
FillsRegion(k) ==
    /\ stdout[k].section.address = u64(RegionOf(k).start)
    /\ stdout[k].section.size = u64(stdout[k].region_end - RegionOf(k).start)

\* C3: the bar of a width >= 1 for a section of size >= 1 inside its region
\* is complete and has exactly width + 2 cells: the opening bracket, the
\* offset blanks, the fill cells, the trailing blanks, the closing bracket.
\* A section that fills its region exactly has no offset and a fill of
\* width cells; a section of one byte in a region of two megabytes or more
\* has a fill of one cell.
C3_BarLength ==
    \A k \in 1..Len(stdout) : Inside(k) =>
        /\ stdout[k].complete
        /\ Len(stdout[k].bar) = 5
        /\ stdout[k].bar[1] = Run("[", u64(1))
        /\ stdout[k].bar[2].glyph = " "
        /\ stdout[k].bar[3].glyph \in {THIN, FULL}
        /\ stdout[k].bar[4].glyph = " "
        /\ stdout[k].bar[5] = Run("]", u64(1))
        /\ Cells(stdout[k].bar) = LimbsAdd(Wide(stdout[k].width), Wide(u64(2)))
        /\ FillsRegion(k) =>
              /\ stdout[k].bar[2].count = u64(0)
              /\ stdout[k].bar[3].count = stdout[k].width
        /\ (/\ stdout[k].section.size = u64(1)
            /\ stdout[k].region_end - RegionOf(k).start >= 2097152) =>
              stdout[k].bar[3].count = u64(1)

\* The statement of C3 about the length alone, for the bars of SpecBars
\* (every region of the catalog, widths up to MaxBarWidth).
C3_LengthInRuns ==
    \A k \in 1..Len(stdout) : Inside(k) =>
        /\ stdout[k].complete
        /\ Cells(stdout[k].bar) = LimbsAdd(Wide(stdout[k].width), Wide(u64(2)))

\* The trailing blanks of a bar of `width` cells with its pad clamped at
\* zero: width - fill - offset, or none when offset + fill exceeds width.
ClampedPad(offset, fill, width) ==
    IF LimbsLt(Wide(width), LimbsAdd(Wide(offset), Wide(fill))) THEN u64(0)
    ELSE overflowing_sub(overflowing_sub(width, fill).value, offset).value

\* C4: in every call of the bar renderer the trailing pad count is never
\* below zero (it is clamped), so no bar is cut short by a panic or drawn
\* with a count that wrapped around: every bar printed is complete, from
\* its opening to its closing bracket, and its trailing blanks are the
\* clamped count.
C4_NoPadUnderflow ==
    \A k \in 1..Len(stdout) : IsPlaced(k) =>
        /\ stdout[k].complete
        /\ Len(stdout[k].bar) = 5
        /\ stdout[k].bar[1] = Run("[", u64(1))
        /\ stdout[k].bar[5] = Run("]", u64(1))
        /\ stdout[k].bar[4] =
              Run(" ", ClampedPad(stdout[k].bar[2].count, stdout[k].bar[3].count,
                                  stdout[k].width))

\* The region id the loop tracks when it comes to line k: that of the last
\* section line before k that has a region, usize::MAX when there is none.
Tracked(k) ==
    LET prev == {j \in 1..(k - 1) : IsPlaced(j)}
    IN  IF prev = {} THEN u64_MAX ELSE u64(RegionOf(Max(prev)).id)

\* C5: a blank line stands immediately before a section line exactly when
\* that section has a region whose id differs from the tracked one; a blank
\* line stands nowhere else (never two in a row, never before a section
\* without a region); last_region is the tracked id, which a section without
\* a region leaves alone.
C5_RegionSeparator ==
    /\ \A k \in 1..Len(stdout) :
          /\ IsSection(k) =>
                ((k > 1 /\ stdout[k - 1].kind = "blank")
                    <=> (stdout[k].region # 0 /\ u64(RegionOf(k).id) # Tracked(k)))
          /\ stdout[k].kind = "blank" => (k < Len(stdout) /\ IsSection(k + 1))
    /\ pc \in {"loop", "done", "panicked"} =>
          last_region = Tracked(Len(stdout) + 1)

\* A section in a region, a section in none, a section in the same region
\* again, on three lines in a row; and a separator somewhere.
C5_Witness ==
    /\ \E k \in 1..(Len(stdout) - 2) :
          /\ IsPlaced(k)
          /\ IsSection(k + 1) /\ stdout[k + 1].region = 0
          /\ IsPlaced(k + 2) /\ stdout[k + 2].region = stdout[k].region
    /\ \E k \in 1..Len(stdout) : stdout[k].kind = "blank"

SectionLines == SelectSeq(stdout, LAMBDA l : l.kind = "section")

\* The sections of the input that have an address and a size.
Kept == {i \in 1..Len(input) : input[i].address # u64(0) /\ input[i].size # u64(0)}

\* The place of input section i in the report: behind the kept sections of
\* a lower address and the earlier kept sections of the same address.
Rank(i) ==
    Cardinality({j \in Kept :
        \/ Lt(input[j].address, input[i].address)
        \/ input[j].address = input[i].address /\ j <= i})

\* C6: the report of a chip of the catalog has no line for a section of
\* address 0 or size 0 and, once the run has ended, one line for every other
\* section, in non-decreasing address order, sections of the same address in
\* the order of the input.
C6_ReportOrder ==
    /\ Len(SectionLines) <= Cardinality(Kept)
    /\ (chip_memory # 0 /\ pc \in {"done", "panicked"}) =>
          Len(SectionLines) = Cardinality(Kept)
    /\ \A i \in Kept : Rank(i) <= Len(SectionLines) =>
          SectionLines[Rank(i)].section = input[i]
    /\ \A k \in 1..(Len(SectionLines) - 1) :
          Le(SectionLines[k].section.address, SectionLines[k + 1].section.address)

\* The statement of C6 for the runs that come to the end of main.
C6_WhenFinished ==
    /\ Len(SectionLines) <= Cardinality(Kept)
    /\ pc = "done" => Len(SectionLines) = Cardinality(Kept)
    /\ \A i \in Kept : Rank(i) <= Len(SectionLines) =>
          SectionLines[Rank(i)].section = input[i]
    /\ \A k \in 1..(Len(SectionLines) - 1) :
          Le(SectionLines[k].section.address, SectionLines[k + 1].section.address)

\* The chips of the catalog the identifier on the command line names.
Matches == {i \in 1..Len(MEMORY) : normalize(MEMORY[i].name) = normalize(argv.chip)}

\* The run got past the command line and the file.
Loaded == Args_parse(argv).ok /\ file = "object"

\* C7, for the runs that read the command line and the object file: the chip
\* of the report is the catalog chip whose name equals the identifier once
\* hyphens are removed and case is folded, so "esp32-s3" and "ESP32S3" both
\* select ESP32-S3; a run goes on past the lookup only with such a chip, and
\* ends there otherwise: no chip matches, the diagnostic is all it has printed
\* and its status is 1.
C7_ChipLookup ==
    /\ pc = "start" =>
          normalize(<<"E", "S", "P", "3", "2", "-", "S", "3">>) = <<"e", "s", "p", "3", "2", "s", "3">>
    /\ pc \in {"start", "lookup"} => (chip_memory = 0 /\ stdout = <<>>)
    /\ pc \notin {"start", "lookup", "exited"} =>
          /\ chip_memory \in 1..Len(MEMORY)
          /\ normalize(MEMORY[chip_memory].name) = normalize(argv.chip)
          /\ argv.chip \in {<<"e", "s", "p", "3", "2", "-", "s", "3">>, <<"E", "S", "P", "3", "2", "S", "3">>}
                => MEMORY[chip_memory].name = <<"E", "S", "P", "3", "2", "-", "S", "3">>
    /\ (Loaded /\ pc = "exited") =>
          /\ Matches = {}
          /\ exit_code = 1
          /\ stdout = <<UnknownChipLine>>

\* A run for an unknown chip that ended with status 1 although the input
\* has sections to report.
C7_Witness ==
    /\ pc = "exited"
    /\ exit_code = 1
    /\ Loaded
    /\ Kept # {}
    /\ stdout = <<UnknownChipLine>>

\* C7 as stated, for every run: when the identifier names no chip of the
\* catalog, the run that ended has printed the diagnostic and nothing else
\* and has a status other than 0.
C7_EveryRun ==
    (argv.chip # <<>> /\ Matches = {} /\ pc \notin {"start", "lookup"}) =>
        /\ pc = "exited"
        /\ exit_code # 0
        /\ stdout = <<UnknownChipLine>>

\* C8: a bar starts with floor(width * (address - region start) / span)
\* blanks; its fill is one thin marker if floor(width * size / span) is 0
\* and that many full cells otherwise; the two glyphs never share a bar; the
\* section of 0x100 bytes at 0x400D0010 on ESP32 without a flash size lies in
\* IROM, with no blank before its single thin marker.  (Compared for the
\* widths below 128, whose products with an offset or a size in a region of
\* the catalog are below 2^31.)
C8_BarContent ==
    \A k \in 1..Len(stdout) :
        (/\ Inside(k) /\ stdout[k].complete
         /\ IsNarrow(stdout[k].width) /\ Narrow(stdout[k].width) < 128) =>
            LET bar    == stdout[k].bar
                width  == Narrow(stdout[k].width)
                span   == stdout[k].region_end - RegionOf(k).start
                offset == (width * (Narrow(stdout[k].section.address) - RegionOf(k).start))
                              \div span
                fill   == (width * Narrow(stdout[k].section.size)) \div span
                cells  == IF fill = 0 THEN 1 ELSE fill
                glyph  == IF fill = 0 THEN THIN ELSE FULL
            IN  /\ bar[2] = Run(" ", u64(offset))
                /\ bar[3] = Run(glyph, u64(cells))
                /\ \A i \in {1, 2, 4, 5} : bar[i].glyph \notin {THIN, FULL}
                /\ (/\ args.chip = BaseArgv.chip /\ args.flash_size = None
                    /\ stdout[k].section.address = u64(1074593808)
                    /\ stdout[k].section.size = u64(256))
                   => (/\ RegionOf(k).name = <<"I", "R", "O", "M">>
                       /\ bar[2].count = u64(0)
                       /\ bar[3] = Run(THIN, u64(1)))

\* C9: the width handed to the bar renderer is args.width less the name
\* column, 8 address cells, 7 size cells, the 4 spaces between the columns,
\* the 2 brackets and 8 region-name cells, so a complete line is exactly
\* args.width cells long (every address, size and region name of such a line
\* in the model fits its column).
C9_WidthBudget ==
    \A k \in 1..Len(stdout) : (IsPlaced(k) /\ stdout[k].complete) =>
        /\ Le(u64(section_name_max_width + 8 + 7 + 4 + 2 + 8), args.width)
        /\ stdout[k].width =
              overflowing_sub(args.width,
                              u64(section_name_max_width + 8 + 7 + 4 + 2 + 8)).value
        /\ LimbsAdd(Wide(u64(Len(stdout[k].text))), Cells(stdout[k].bar))
              = Wide(args.width)

\* C10: under every flash capacity the regions of every chip of the catalog
\* are pairwise disjoint, so that one region at most holds a section.
C10_CatalogDisjoint ==
    /\ \A c \in 1..Len(MEMORY) : \A f \in FlashSizes \cup {None} :
          \A i, j \in 1..Len(MEMORY[c].regions) : i < j =>
             LET a == MEMORY[c].regions[i]
                 b == MEMORY[c].regions[j]
             IN  end(a, f) < b.start \/ end(b, f) < a.start
    /\ \A k \in 1..Len(stdout) : IsPlaced(k) => Cardinality(Fitting(k)) <= 1
=============================================================================
